---- MODULE Spec2Model ----
(***************************************************************************)
(* A model of the MCP line server: the protocol codec (package protocol),  *)
(* the context store (package state) and the TCP server with its           *)
(* connection handlers (package handler).                                  *)
(*                                                                         *)
(* A Go string is a sequence of one-character strings, so that trimming,   *)
(* splitting and joining are computed character by character.              *)
(***************************************************************************)
EXTENDS Integers, Sequences, FiniteSets, TLC

VARIABLES
    \* ---- codec harness (package protocol)
    cpc,        \* position of the codec harness
    cin,        \* the input drawn: a raw line or a Message
    wire,       \* the text Format produced
    cout,       \* the result of Parse: [ok, msg] or [ok, err]
    \* ---- context store (package state)
    contexts,   \* ContextStore.contexts: clientID -> Values map
    mu,         \* ContextStore.mu: [writer, readers]
    task,       \* the tasks calling the store: position, arguments, locals
    lastWrite,  \* history: the last value written to (clientID, key) and
                \* not removed or cleared since
    \* ---- server (package handler)
    listener,   \* Server.listener: "nil", "bound" (net.Listen has returned,
                \* the field is not assigned yet), "open" or "closed"
    sCloseChan, \* Server.closeChan is closed
    smu,        \* holder of Server.mu: "none" or "shutdown"
    shutdown,   \* the call of Shutdown: position, connection being closed,
                \* value returned
    acceptPc,   \* position of Start and of the acceptConnections goroutine
    connections,\* Server.connections: connection id -> Connection
    conns       \* the Connection objects, in the order of their creation

codecVars == <<cpc, cin, wire, cout>>
storeVars == <<contexts, mu, task, lastWrite>>
serverVars == <<listener, sCloseChan, smu, shutdown, acceptPc, connections, conns>>

vars == <<codecVars, storeVars, serverVars>>

----------------------------------------------------------------------------
(* Strings                                                                 *)

\* unicode.IsSpace, restricted to the characters the model draws
IsSpace(ch) == ch \in {" ", "\t", "\n", "\r"}

Range(s) == {s[i] : i \in 1..Len(s)}

\* strings.TrimLeft(s, whitespace)
RECURSIVE TrimLeft(_)
TrimLeft(s) ==
    IF s = <<>> THEN <<>>
    ELSE IF IsSpace(Head(s)) THEN TrimLeft(Tail(s)) ELSE s

\* strings.TrimRight(s, whitespace)
RECURSIVE TrimRight(_)
TrimRight(s) ==
    IF s = <<>> THEN <<>>
    ELSE IF IsSpace(s[Len(s)]) THEN TrimRight(SubSeq(s, 1, Len(s) - 1)) ELSE s

\* strings.TrimSpace
TrimSpace(s) == TrimRight(TrimLeft(s))

\* strings.Index(s, sep) for a one-character sep, 1-based; 0 when absent
RECURSIVE IndexFrom(_, _, _)
IndexFrom(s, sep, i) ==
    IF i > Len(s) THEN 0
    ELSE IF s[i] = sep THEN i ELSE IndexFrom(s, sep, i + 1)

Index(s, sep) == IndexFrom(s, sep, 1)

\* strings.SplitN(s, sep, 2): at most two pieces, cut at the first sep
SplitN2(s, sep) ==
    LET i == Index(s, sep) IN
    IF i = 0 THEN <<s>>
    ELSE <<SubSeq(s, 1, i - 1), SubSeq(s, i + 1, Len(s))>>

\* strings.Split(s, sep): every piece; Split("", sep) is one empty piece
RECURSIVE Split(_, _)
Split(s, sep) ==
    LET i == Index(s, sep) IN
    IF i = 0 THEN <<s>>
    ELSE <<SubSeq(s, 1, i - 1)>> \o Split(SubSeq(s, i + 1, Len(s)), sep)

\* strings.Join(elems, sep) for a one-character sep
RECURSIVE Join(_, _)
Join(elems, sep) ==
    IF elems = <<>> THEN <<>>
    ELSE IF Len(elems) = 1 THEN elems[1]
    ELSE elems[1] \o <<sep>> \o Join(Tail(elems), sep)

----------------------------------------------------------------------------
(* package protocol                                                        *)

TypePing    == <<"P", "I", "N", "G">>
TypePong    == <<"P", "O", "N", "G">>
TypeContext == <<"C", "O", "N", "T", "E", "X", "T">>
TypeAck     == <<"A", "C", "K">>
TypeError   == <<"E", "R", "R", "O", "R">>

\* the zero-parameter map
NoParams == [k \in {} |-> <<>>]

\* protocol.NewMessage
NewMessage(msgType, params) == [Type |-> msgType, Params |-> params]

ParseError(why) == [ok |-> FALSE, err |-> why]

\* The loop over paramPairs of Parse: the pairs are consumed left to right,
\* the first bad pair returns its error, a repeated key keeps the last value.
RECURSIVE ParsePairs(_, _)
ParsePairs(paramPairs, params) ==
    IF paramPairs = <<>> THEN [ok |-> TRUE, params |-> params]
    ELSE
        LET kv == SplitN2(Head(paramPairs), "=") IN
        IF Len(kv) # 2 THEN ParseError("invalid parameter format")
        ELSE
            LET key   == TrimSpace(kv[1])
                value == TrimSpace(kv[2])
            IN
            IF key = <<>> THEN ParseError("empty parameter key")
            ELSE ParsePairs(Tail(paramPairs),
                     [k \in DOMAIN params \cup {key} |->
                         IF k = key THEN value ELSE params[k]])

\* ParseParams without its guard on the empty section
ParseParamsNoGuard(section) == ParsePairs(Split(section, ";"), NoParams)

\* The parameter section of Parse: an empty section is zero parameters
ParseParams(section) ==
    IF section # <<>> THEN ParsePairs(Split(section, ";"), NoParams)
    ELSE [ok |-> TRUE, params |-> NoParams]

\* protocol.Parse
Parse(raw0) ==
    LET raw == TrimSpace(raw0) IN
    IF raw = <<>> THEN ParseError("empty message")
    ELSE
        LET parts == SplitN2(raw, ":") IN
        IF Len(parts) # 2 THEN ParseError("missing type separator")
        ELSE
            LET msgType == TrimSpace(parts[1]) IN
            IF msgType = <<>> THEN ParseError("missing message type")
            ELSE
                LET ps == ParseParams(parts[2]) IN
                IF ~ps.ok THEN ps
                ELSE [ok |-> TRUE, msg |-> [Type |-> msgType, Params |-> ps.params]]

\* The orders in which Go may range over a map with key set S
Orders(S) ==
    {o \in [1..Cardinality(S) -> S] : \A i, j \in DOMAIN o : i # j => o[i] # o[j]}

\* One "key=value" element of Format
FormatPair(key, value) == key \o <<"=">> \o value

\* Format writing the pair separator after every pair, the last one included
FormatOrdTrailingSep(m, order) ==
    LET params == [i \in DOMAIN order |-> FormatPair(order[i], m.Params[order[i]])]
    IN m.Type \o <<":">> \o Join(params, ";")
              \o (IF order = <<>> THEN <<>> ELSE <<";">>)

\* Message.Format with the map ranged over in the order `order`
FormatOrd(m, order) ==
    LET params == [i \in DOMAIN order |-> FormatPair(order[i], m.Params[order[i]])]
    IN m.Type \o <<":">> \o Join(params, ";")

\* Message.Format: the range order over a Go map is unspecified
Formats(m) == {FormatOrd(m, o) : o \in Orders(DOMAIN m.Params)}

\* protocol.ValidateMessageType
ValidateMessageType(msgType) ==
    msgType \in {TypePing, TypePong, TypeContext, TypeAck, TypeError}

----------------------------------------------------------------------------
(* The codec harness: draw an input, apply Parse, or Format then Parse     *)

\* longest raw line drawn for Parse
MaxRawLen == 5
\* most parameters of a Message drawn for Format
MaxParams == 2

RawAlphabet == {"a", " ", ":", ";", "="}

RECURSIVE StringsUpTo(_, _)
StringsUpTo(A, n) ==
    IF n = 0 THEN {<<>>}
    ELSE LET shorter == StringsUpTo(A, n - 1) IN
         shorter \cup {Append(s, ch) : s \in shorter, ch \in A}

RawInputs == StringsUpTo(RawAlphabet, MaxRawLen)

\* Candidate type tags, keys and values of the Messages drawn: plain text,
\* empty text, text with surrounding or inner blanks, and text holding each
\* of the three separators.
TypeFields == {<<>>, <<"a">>, <<" ", "a">>, <<"a", ":">>, TypePing}
KeyFields  == {<<>>, <<"a">>, <<"b">>, <<" ">>, <<"a", " ">>, <<"a", "=">>}
ValFields  == {<<>>, <<"1">>, <<" ", "1">>, <<"1", " ", "2">>, <<"1", ";">>, <<"=">>}

Messages ==
    {NewMessage(t, p) :
        t \in TypeFields,
        p \in UNION {[K -> ValFields] :
                        K \in {S \in SUBSET KeyFields : Cardinality(S) <= MaxParams}}}

CodecInit ==
    /\ cpc = "start"
    /\ cin \in [kind : {"raw"}, raw : RawInputs] \cup [kind : {"msg"}, msg : Messages]
    /\ wire = <<>>
    /\ cout = [ok |-> FALSE, err |-> "none"]

\* Parse(raw)
DoParse ==
    /\ cpc = "start"
    /\ cin.kind = "raw"
    /\ cout' = Parse(cin.raw)
    /\ cpc' = "parsed"
    /\ UNCHANGED <<cin, wire, storeVars, serverVars>>

\* m.Format()
DoFormat ==
    /\ cpc = "start"
    /\ cin.kind = "msg"
    /\ \E w \in Formats(cin.msg) : wire' = w
    /\ cpc' = "formatted"
    /\ UNCHANGED <<cin, cout, storeVars, serverVars>>

\* Parse(m.Format())
DoReparse ==
    /\ cpc = "formatted"
    /\ cout' = Parse(wire)
    /\ cpc' = "roundtrip"
    /\ UNCHANGED <<cin, wire, storeVars, serverVars>>

CodecNext == DoParse \/ DoFormat \/ DoReparse

----------------------------------------------------------------------------
(* package state: the ContextStore                                         *)
(*                                                                         *)
(* contexts is a function from the client identifiers that have an entry   *)
(* to that entry's Values map, itself a function from the keys present.    *)

\* make(map[string]string)
EmptyValues == [k \in {} |-> ""]

\* NewContextStore
NewContextStore == [c \in {} |-> EmptyValues]

\* client, exists := s.contexts[clientID]
Exists(ctxs, clientID) == clientID \in DOMAIN ctxs

\* client = &ClientContext{Values: make(...)}; s.contexts[clientID] = client
CtxCreate(ctxs, clientID) ==
    [c \in DOMAIN ctxs \cup {clientID} |->
        IF c = clientID THEN EmptyValues ELSE ctxs[c]]

\* client.Values[key] = value. client is the entry the caller looked up or
\* created under the lock it still holds, so it is the entry of clientID; a
\* write through an entry that has left the map reaches no reader.
CtxPut(ctxs, clientID, key, value) ==
    IF ~Exists(ctxs, clientID) THEN ctxs
    ELSE [ctxs EXCEPT ![clientID] =
             [k \in DOMAIN @ \cup {key} |-> IF k = key THEN value ELSE @[k]]]

\* delete(client.Values, key), client as in CtxPut
CtxDelete(ctxs, clientID, key) ==
    IF ~Exists(ctxs, clientID) THEN ctxs
    ELSE [ctxs EXCEPT ![clientID] = [k \in DOMAIN @ \ {key} |-> @[k]]]

\* delete(s.contexts, clientID)
CtxClear(ctxs, clientID) == [c \in DOMAIN ctxs \ {clientID} |-> ctxs[c]]

\* the body of ContextStore.Get, under the read lock
Get(ctxs, clientID, key) ==
    IF ~Exists(ctxs, clientID) THEN [val |-> "", found |-> FALSE]
    ELSE IF key \in DOMAIN ctxs[clientID]
         THEN [val |-> ctxs[clientID][key], found |-> TRUE]
         ELSE [val |-> "", found |-> FALSE]

\* the body of ContextStore.GetAll: a copy of the Values map
GetAll(ctxs, clientID) ==
    IF ~Exists(ctxs, clientID) THEN [vals |-> EmptyValues, found |-> FALSE]
    ELSE [vals |-> [k \in DOMAIN ctxs[clientID] |-> ctxs[clientID][k]],
          found |-> TRUE]

\* the body of ContextStore.ListClients; the order of the slice is the
\* range order of the map, so the result is read as a set
ListClients(ctxs) == DOMAIN ctxs

\* QueryClients: v, exists := ctx.Values[key]; exists && v == value
MatchesKeyOnly(ctxs, c, key, value) == key \in DOMAIN ctxs[c]
Matches(ctxs, c, key, value) == key \in DOMAIN ctxs[c] /\ ctxs[c][key] = value

\* the body of ContextStore.QueryClients when the range over s.contexts goes
\* in the given order: the slice of the clients that match
QueryClientsOrd(ctxs, key, value, order) ==
    SelectSeq(order, LAMBDA c : Matches(ctxs, c, key, value))

\* the slices ContextStore.QueryClients may return
QueryClients(ctxs, key, value) ==
    {QueryClientsOrd(ctxs, key, value, order) : order \in Orders(DOMAIN ctxs)}

\* the body of ContextStore.Set, under the write lock
Set(ctxs, clientID, key, value) ==
    CtxPut(IF Exists(ctxs, clientID) THEN ctxs ELSE CtxCreate(ctxs, clientID),
           clientID, key, value)

\* sync.RWMutex: Lock waits for no writer and no reader, RLock for no writer
WLockFree(m) == m.writer = 0 /\ m.readers = {}
RLockFree(m) == m.writer = 0
WLock(m, t) == [m EXCEPT !.writer = t]
WUnlock(m, t) == [m EXCEPT !.writer = IF @ = t THEN 0 ELSE @]
RLock(m, t) == [m EXCEPT !.readers = @ \cup {t}]
RUnlock(m, t) == [m EXCEPT !.readers = @ \ {t}]

----------------------------------------------------------------------------
(* Tasks calling the store concurrently. A call r (its method and          *)
(* arguments) waits for the lock, runs its body statement by statement     *)
(* and unlocks as it returns (the deferred Unlock). A task that waits for  *)
(* the lock changes nothing, so a call is drawn as its task gets the lock, *)
(* except in the race scenarios below, where every task starts with its    *)
(* call made and waits.                                                    *)

\* tasks calling the store at once
NTasks == 2

Tasks    == 1..NTasks
Clients  == {"c1", "c2"}
Keys     == {"k1", "k2", "k3"}
CallKeys == {"k1", "k2"}
Values   == {"v1", "v2"}
NoValue  == "-"

\* the maps SetMultiple is called with
Batches == UNION {[K -> Values] : K \in SUBSET CallKeys}

IdleTask ==
    [pc |-> "idle", op |-> "-", c |-> "-", k |-> "-", v |-> "-",
     batch |-> EmptyValues, todo |-> {}, ret |-> "-"]

CallSet(c, k, v) ==
    [IdleTask EXCEPT !.pc = "lock", !.op = "Set", !.c = c, !.k = k, !.v = v]
CallSetMultiple(c, b) ==
    [IdleTask EXCEPT !.pc = "lock", !.op = "SetMultiple", !.c = c,
                     !.batch = b, !.todo = DOMAIN b]
CallRemove(c, k) == [IdleTask EXCEPT !.pc = "lock", !.op = "Remove", !.c = c, !.k = k]
CallClear(c) == [IdleTask EXCEPT !.pc = "lock", !.op = "Clear", !.c = c]
CallGet(c, k) == [IdleTask EXCEPT !.pc = "rlock", !.op = "Get", !.c = c, !.k = k]
CallGetAll(c) == [IdleTask EXCEPT !.pc = "rlock", !.op = "GetAll", !.c = c]
CallListClients == [IdleTask EXCEPT !.pc = "rlock", !.op = "ListClients"]
CallQueryClients(k, v) ==
    [IdleTask EXCEPT !.pc = "rlock", !.op = "QueryClients", !.k = k, !.v = v]

\* the calls a task may make, each with its arguments
Calls ==
    {CallSet(c, k, v) : c \in Clients, k \in CallKeys, v \in Values}
    \cup {CallSetMultiple(c, b) : c \in Clients, b \in Batches}
    \cup {CallRemove(c, k) : c \in Clients, k \in CallKeys}
    \cup {CallClear(c) : c \in Clients}
    \cup {CallGet(c, k) : c \in Clients, k \in CallKeys}
    \cup {CallGetAll(c) : c \in Clients}
    \cup {CallListClients}
    \cup {CallQueryClients(k, v) : k \in CallKeys, v \in Values}

At(t, op, pc) == task[t].op = op /\ task[t].pc = pc

\* Set without s.mu.Lock()
SetAcquireNoLock(t, r) ==
    /\ r.op = "Set"
    /\ task' = [task EXCEPT ![t] =
                   [r EXCEPT !.pc = IF Exists(contexts, r.c) THEN "put" ELSE "create"]]
    /\ UNCHANGED <<contexts, mu, lastWrite, codecVars, serverVars>>

\* Set: s.mu.Lock(); client, exists := s.contexts[clientID]
SetAcquire(t, r) ==
    /\ r.op = "Set"
    /\ WLockFree(mu)
    /\ mu' = WLock(mu, t)
    /\ task' = [task EXCEPT ![t] =
                   [r EXCEPT !.pc = IF Exists(contexts, r.c) THEN "put" ELSE "create"]]
    /\ UNCHANGED <<contexts, lastWrite, codecVars, serverVars>>

\* Set: if !exists { client = &ClientContext{...}; s.contexts[clientID] = client }
SetCreate(t) ==
    /\ At(t, "Set", "create")
    /\ contexts' = CtxCreate(contexts, task[t].c)
    /\ task' = [task EXCEPT ![t].pc = "put"]
    /\ UNCHANGED <<mu, lastWrite, codecVars, serverVars>>

\* Set: client.Values[key] = value
SetPut(t) ==
    /\ At(t, "Set", "put")
    /\ contexts' = CtxPut(contexts, task[t].c, task[t].k, task[t].v)
    /\ lastWrite' = [lastWrite EXCEPT ![<<task[t].c, task[t].k>>] = task[t].v]
    /\ task' = [task EXCEPT ![t].pc = "unlock"]
    /\ UNCHANGED <<mu, codecVars, serverVars>>

\* SetMultiple without s.mu.Lock()
SetMultipleAcquireNoLock(t, r) ==
    /\ r.op = "SetMultiple"
    /\ task' = [task EXCEPT ![t] =
                   [r EXCEPT !.pc = IF ~Exists(contexts, r.c) THEN "create"
                                    ELSE IF r.todo = {} THEN "unlock" ELSE "putm"]]
    /\ UNCHANGED <<contexts, mu, lastWrite, codecVars, serverVars>>

\* SetMultiple: s.mu.Lock(); client, exists := s.contexts[clientID]
SetMultipleAcquire(t, r) ==
    /\ r.op = "SetMultiple"
    /\ WLockFree(mu)
    /\ mu' = WLock(mu, t)
    /\ task' = [task EXCEPT ![t] =
                   [r EXCEPT !.pc = IF ~Exists(contexts, r.c) THEN "create"
                                    ELSE IF r.todo = {} THEN "unlock" ELSE "putm"]]
    /\ UNCHANGED <<contexts, lastWrite, codecVars, serverVars>>

\* SetMultiple: if !exists { ...; s.contexts[clientID] = client }
SetMultipleCreate(t) ==
    /\ At(t, "SetMultiple", "create")
    /\ contexts' = CtxCreate(contexts, task[t].c)
    /\ task' = [task EXCEPT ![t].pc = IF task[t].todo = {} THEN "unlock" ELSE "putm"]
    /\ UNCHANGED <<mu, lastWrite, codecVars, serverVars>>

\* SetMultiple: one turn of for k, v := range values { client.Values[k] = v },
\* the pairs taken in any order
SetMultiplePut(t) ==
    /\ At(t, "SetMultiple", "putm")
    /\ \E k \in task[t].todo :
         /\ contexts' = CtxPut(contexts, task[t].c, k, task[t].batch[k])
         /\ lastWrite' = [lastWrite EXCEPT ![<<task[t].c, k>>] = task[t].batch[k]]
         /\ task' = [task EXCEPT ![t].todo = @ \ {k},
                                 ![t].pc = IF task[t].todo = {k} THEN "unlock" ELSE "putm"]
    /\ UNCHANGED <<mu, codecVars, serverVars>>

\* Remove: s.mu.Lock(); client, exists := s.contexts[clientID]; if !exists { return }
RemoveAcquire(t, r) ==
    /\ r.op = "Remove"
    /\ WLockFree(mu)
    /\ mu' = WLock(mu, t)
    /\ task' = [task EXCEPT ![t] =
                   [r EXCEPT !.pc = IF Exists(contexts, r.c) THEN "del" ELSE "unlock"]]
    /\ UNCHANGED <<contexts, lastWrite, codecVars, serverVars>>

\* Remove forgetting its delete
RemoveDeleteNothing(t) ==
    /\ At(t, "Remove", "del")
    /\ lastWrite' = [lastWrite EXCEPT ![<<task[t].c, task[t].k>>] = NoValue]
    /\ task' = [task EXCEPT ![t].pc = "unlock"]
    /\ UNCHANGED <<contexts, mu, codecVars, serverVars>>

\* Remove: delete(client.Values, key)
RemoveDelete(t) ==
    /\ At(t, "Remove", "del")
    /\ contexts' = CtxDelete(contexts, task[t].c, task[t].k)
    /\ lastWrite' = [lastWrite EXCEPT ![<<task[t].c, task[t].k>>] = NoValue]
    /\ task' = [task EXCEPT ![t].pc = "unlock"]
    /\ UNCHANGED <<mu, codecVars, serverVars>>

\* Clear: s.mu.Lock()
ClearAcquire(t, r) ==
    /\ r.op = "Clear"
    /\ WLockFree(mu)
    /\ mu' = WLock(mu, t)
    /\ task' = [task EXCEPT ![t] = [r EXCEPT !.pc = "clr"]]
    /\ UNCHANGED <<contexts, lastWrite, codecVars, serverVars>>

\* Clear: delete(s.contexts, clientID)
ClearDelete(t) ==
    /\ At(t, "Clear", "clr")
    /\ contexts' = CtxClear(contexts, task[t].c)
    /\ lastWrite' = [ck \in DOMAIN lastWrite |->
                        IF ck[1] = task[t].c THEN NoValue ELSE lastWrite[ck]]
    /\ task' = [task EXCEPT ![t].pc = "unlock"]
    /\ UNCHANGED <<mu, codecVars, serverVars>>

\* the deferred s.mu.Unlock() of Set, SetMultiple, Remove and Clear
WriterReturn(t) ==
    /\ task[t].op \in {"Set", "SetMultiple", "Remove", "Clear"}
    /\ task[t].pc = "unlock"
    /\ mu' = WUnlock(mu, t)
    /\ task' = [task EXCEPT ![t] = IdleTask]
    /\ UNCHANGED <<contexts, lastWrite, codecVars, serverVars>>

\* a reader takes the read lock and runs its body; ret is what it will return
Read(t, r, result) ==
    /\ RLockFree(mu)
    /\ mu' = RLock(mu, t)
    /\ task' = [task EXCEPT ![t] = [r EXCEPT !.pc = "ret", !.ret = result]]
    /\ UNCHANGED <<contexts, lastWrite, codecVars, serverVars>>

\* Get: s.mu.RLock() and the body
GetRead(t, r) == r.op = "Get" /\ Read(t, r, Get(contexts, r.c, r.k))

\* GetAll: s.mu.RLock() and the body
GetAllRead(t, r) == r.op = "GetAll" /\ Read(t, r, GetAll(contexts, r.c))

\* ListClients: s.mu.RLock() and the body
ListClientsRead(t, r) == r.op = "ListClients" /\ Read(t, r, ListClients(contexts))

\* QueryClients: s.mu.RLock() and the body
QueryClientsRead(t, r) ==
    /\ r.op = "QueryClients"
    /\ \E matches \in QueryClients(contexts, r.k, r.v) : Read(t, r, matches)

\* the deferred s.mu.RUnlock() of Get, GetAll, ListClients and QueryClients
ReaderReturn(t) ==
    /\ task[t].op \in {"Get", "GetAll", "ListClients", "QueryClients"}
    /\ task[t].pc = "ret"
    /\ mu' = RUnlock(mu, t)
    /\ task' = [task EXCEPT ![t] = IdleTask]
    /\ UNCHANGED <<contexts, lastWrite, codecVars, serverVars>>

StoreInit ==
    /\ contexts = NewContextStore
    /\ mu = [writer |-> 0, readers |-> {}]
    /\ task = [t \in Tasks |-> IdleTask]
    /\ lastWrite = [ck \in Clients \X Keys |-> NoValue]

\* an idle task calls a method and gets the lock
SetCall(t) == task[t].pc = "idle" /\ \E r \in Calls : SetAcquire(t, r)
SetMultipleCall(t) == task[t].pc = "idle" /\ \E r \in Calls : SetMultipleAcquire(t, r)
RemoveCall(t) == task[t].pc = "idle" /\ \E r \in Calls : RemoveAcquire(t, r)
ClearCall(t) == task[t].pc = "idle" /\ \E r \in Calls : ClearAcquire(t, r)
GetCall(t) == task[t].pc = "idle" /\ \E r \in Calls : GetRead(t, r)
GetAllCall(t) == task[t].pc = "idle" /\ \E r \in Calls : GetAllRead(t, r)
ListClientsCall(t) == task[t].pc = "idle" /\ \E r \in Calls : ListClientsRead(t, r)
QueryClientsCall(t) == task[t].pc = "idle" /\ \E r \in Calls : QueryClientsRead(t, r)

\* any task calls any method at any time
StoreNext ==
    \E t \in Tasks :
        \/ SetCall(t)
        \/ SetCreate(t)
        \/ SetPut(t)
        \/ SetMultipleCall(t)
        \/ SetMultipleCreate(t)
        \/ SetMultiplePut(t)
        \/ RemoveCall(t)
        \/ RemoveDelete(t)
        \/ ClearCall(t)
        \/ ClearDelete(t)
        \/ WriterReturn(t)
        \/ GetCall(t)
        \/ GetAllCall(t)
        \/ ListClientsCall(t)
        \/ QueryClientsCall(t)
        \/ ReaderReturn(t)

----------------------------------------------------------------------------
(* Race scenarios: every task has made one call and waits for the lock;    *)
(* the store starts with client c1 absent, or present with old values.     *)

OldValue == "v0"

RaceStores ==
    {NewContextStore}
    \cup {[c \in {"c1"} |-> m] : m \in UNION {[K -> {OldValue}] : K \in SUBSET Keys}}

\* the history that goes with a store the scenario starts from
HistoryOf(ctxs) ==
    [ck \in Clients \X Keys |->
        IF Get(ctxs, ck[1], ck[2]).found THEN ctxs[ck[1]][ck[2]] ELSE NoValue]

\* a waiting task gets the lock
SetEnter(t) == task[t].pc = "lock" /\ SetAcquire(t, task[t])
SetMultipleEnter(t) == task[t].pc = "lock" /\ SetMultipleAcquire(t, task[t])
GetEnter(t) == task[t].pc = "rlock" /\ GetRead(t, task[t])
GetAllEnter(t) == task[t].pc = "rlock" /\ GetAllRead(t, task[t])
ListClientsEnter(t) == task[t].pc = "rlock" /\ ListClientsRead(t, task[t])
QueryClientsEnter(t) == task[t].pc = "rlock" /\ QueryClientsRead(t, task[t])

\* N tasks call Set on pairwise distinct keys of client c1
SetRaceInit ==
    /\ contexts \in RaceStores
    /\ mu = [writer |-> 0, readers |-> {}]
    /\ \E key \in [Tasks -> Keys], val \in [Tasks -> Values] :
         /\ \A t, u \in Tasks : t # u => key[t] # key[u]
         /\ task = [t \in Tasks |-> CallSet("c1", key[t], val[t])]
    /\ lastWrite = HistoryOf(contexts)

SetRaceNext ==
    \E t \in Tasks :
        \/ SetEnter(t)
        \/ SetCreate(t)
        \/ SetPut(t)
        \/ WriterReturn(t)

\* task 1 calls SetMultiple on client c1 while the other tasks read
BatchRaceInit ==
    /\ contexts \in RaceStores
    /\ mu = [writer |-> 0, readers |-> {}]
    /\ task \in {f \in [Tasks -> Calls] :
                   /\ f[1].op = "SetMultiple" /\ f[1].c = "c1"
                   /\ \A t \in Tasks \ {1} :
                        /\ f[t].op \in {"Get", "GetAll", "ListClients", "QueryClients"}
                        /\ f[t].c \in {"c1", "-"}}
    /\ lastWrite = HistoryOf(contexts)

BatchRaceNext ==
    \E t \in Tasks :
        \/ SetMultipleEnter(t)
        \/ SetMultipleCreate(t)
        \/ SetMultiplePut(t)
        \/ WriterReturn(t)
        \/ GetEnter(t)
        \/ GetAllEnter(t)
        \/ ListClientsEnter(t)
        \/ QueryClientsEnter(t)
        \/ ReaderReturn(t)

----------------------------------------------------------------------------
(* package handler: the Server and its Connections                         *)
(*                                                                         *)
(* conns holds every Connection object in the order of its creation; a     *)
(* Connection is known by its index there. connections is the Server's     *)
(* table, from connection identifier to Connection.                        *)

\* connections accepted over the life of the process
MaxConns == 2
\* lines the clients send, over all connections
MaxLines == 2

LF == "\n"

\* the lines a client may send, each ended by the delimiter
LinePing     == TypePing \o <<":", LF>>
LineContext2 == TypeContext \o <<":", "a", "=", "1", ";", "b", "=", "2", LF>>
LineContext1 == TypeContext \o <<":", "a", "=", "2", LF>>
LineGarbage  == <<"G", "A", "R", "B", "A", "G", "E", LF>>
LineAck      == TypeAck \o <<":", LF>>
LinePong     == TypePong \o <<":", "a", "=", "1", LF>>
LineError    == TypeError \o <<":", LF>>
LineUnknown  == <<"p", "i", "n", "g", ":", "a", "=", "1", LF>>

Lines == {LinePing, LineContext2, LineContext1, LineGarbage,
          LineAck, LinePong, LineError, LineUnknown}

\* fmt.Sprintf("%d", time.Now().Unix()): the digits of the current time
UnixTimeText == <<"1", "7">>

NoMsg == [Type |-> <<>>, Params |-> NoParams]

\* &Connection{id: connID, conn: conn, closeChan: make(chan struct{})}, with
\* the history the claims read: log (the malformed lines read, the requests
\* dispatched and the responses written or failed, in order), reg (it was
\* put in the table), chanCloses and sockCloses (runs of the two statements
\* of Close)
NewConnection(connID) ==
    [id |-> connID, sock |-> "open", closeChan |-> FALSE, once |-> "new",
     hpc |-> "new", msg |-> NoMsg, todo |-> {}, buffered |-> FALSE, nread |-> 0,
     log |-> <<>>, reg |-> FALSE,
     chanCloses |-> 0, sockCloses |-> 0]

\* fmt.Sprintf("%s-%d", conn.RemoteAddr().String(), time.Now().UnixNano())
ConnID(addr, nano) == <<addr, nano>>

\* Only the equality of two addresses or of two clock readings matters, so
\* each new one is named by the next unused number. A remote address is free
\* for a new connection once no open socket of the server has it.
UsedAddrs == {conns[i].id[1] : i \in DOMAIN conns}
UsedNanos == {conns[i].id[2] : i \in DOMAIN conns}
OpenAddrs == {conns[i].id[1] : i \in {j \in DOMAIN conns : conns[j].sock = "open"}}
RemoteAddrs == (UsedAddrs \ OpenAddrs) \cup {Cardinality(UsedAddrs) + 1}
ClockReadings == UsedNanos \cup {Cardinality(UsedNanos) + 1}

\* NewServer
ServerInit ==
    /\ listener = "nil"
    /\ sCloseChan = FALSE
    /\ smu = "none"
    /\ shutdown = [pc |-> "idle", cur |-> 0, ret |-> "-"]
    /\ acceptPc = "off"
    /\ connections = [id \in {} |-> 0]
    /\ conns = <<>>

\* a panic (close of a closed channel) ends the process
Alive == shutdown.pc # "panic"

storeAux == <<mu, task, lastWrite>>

\* Start: net.Listen fails
StartBindError ==
    /\ Alive
    /\ listener = "nil"
    /\ acceptPc = "off"
    /\ acceptPc' = "bindError"
    /\ UNCHANGED <<listener, sCloseChan, smu, shutdown, connections, conns,
                   contexts, storeAux, codecVars>>

\* Start: listener, err := net.Listen("tcp", addr)
StartListen ==
    /\ Alive
    /\ listener = "nil"
    /\ acceptPc = "off"
    /\ listener' = "bound"
    /\ UNCHANGED <<sCloseChan, smu, shutdown, acceptPc, connections, conns,
                   contexts, storeAux, codecVars>>

\* Start: s.listener = listener; go s.acceptConnections()
StartAccepting ==
    /\ Alive
    /\ listener = "bound"
    /\ listener' = "open"
    /\ acceptPc' = "select"
    /\ UNCHANGED <<sCloseChan, smu, shutdown, connections, conns,
                   contexts, storeAux, codecVars>>

\* acceptConnections: select { case <-s.closeChan: return; default: }
AcceptSelect ==
    /\ Alive
    /\ acceptPc = "select"
    /\ acceptPc' = IF sCloseChan THEN "exited" ELSE "accept"
    /\ UNCHANGED <<listener, sCloseChan, smu, shutdown, connections, conns,
                   contexts, storeAux, codecVars>>

\* acceptConnections: s.listener.Accept() returns a socket, and the
\* Connection is built around it
AcceptConn ==
    /\ Alive
    /\ acceptPc = "accept"
    /\ listener = "open"
    /\ Len(conns) < MaxConns
    /\ \E addr \in RemoteAddrs, nano \in ClockReadings :
         conns' = Append(conns, NewConnection(ConnID(addr, nano)))
    /\ acceptPc' = "register"
    /\ UNCHANGED <<listener, sCloseChan, smu, shutdown, connections,
                   contexts, storeAux, codecVars>>

\* acceptConnections: s.listener.Accept() returns an error (always so once
\* the listener is closed); the loop returns if s.closeChan is closed and
\* logs and continues if not
AcceptErrorExits ==
    /\ Alive
    /\ acceptPc = "accept"
    /\ acceptPc' = "exited"
    /\ UNCHANGED <<listener, sCloseChan, smu, shutdown, connections, conns,
                   contexts, storeAux, codecVars>>
AcceptError ==
    /\ Alive
    /\ acceptPc = "accept"
    /\ acceptPc' = IF sCloseChan THEN "exited" ELSE "select"
    /\ UNCHANGED <<listener, sCloseChan, smu, shutdown, connections, conns,
                   contexts, storeAux, codecVars>>

\* acceptConnections: s.mu.Lock(); s.connections[connID] = c; s.mu.Unlock();
\* go c.Handle()
AcceptRegister ==
    /\ Alive
    /\ acceptPc = "register"
    /\ smu = "none"
    /\ LET i == Len(conns) IN
         /\ connections' = [id \in DOMAIN connections \cup {conns[i].id} |->
                               IF id = conns[i].id THEN i ELSE connections[id]]
         /\ conns' = [conns EXCEPT ![i].reg = TRUE, ![i].hpc = "select"]
    /\ acceptPc' = "select"
    /\ UNCHANGED <<listener, sCloseChan, smu, shutdown,
                   contexts, storeAux, codecVars>>

\* Connection.Close: c.closedOnce.Do runs its function for the first caller
OnceRunsAlways(c) == TRUE
OnceRuns(c) == c.once = "new"

\* c.closedOnce.Do returns at once for a caller that comes after the function
\* has returned; a caller that comes while it runs waits for it
OnceSkips(c) == c.once = "done" /\ ~OnceRuns(c)

\* Connection.Close: close(c.closeChan)
CloseBegin(c) ==
    [c EXCEPT !.once = "running", !.closeChan = TRUE, !.chanCloses = @ + 1]

\* Connection.Close: c.conn.Close(), and closedOnce.Do returns
CloseEnd(c) ==
    [c EXCEPT !.once = "done", !.sock = "closed", !.sockCloses = @ + 1]

\* Connection.Close: the body does not call c.store
StoreAfterCloseCleared(ctxs, c) == CtxClear(ctxs, c.id)
StoreAfterClose(ctxs, c) == ctxs

\* the lines read so far by the first n connections
RECURSIVE LinesRead(_)
LinesRead(n) == IF n = 0 THEN 0 ELSE conns[n].nread + LinesRead(n - 1)

HandlerAt(i, pc) == Alive /\ i \in DOMAIN conns /\ conns[i].hpc = pc

HandlerFrame == <<listener, sCloseChan, smu, shutdown, acceptPc, connections>>

\* Handle: select { case <-c.closeChan: return; default: }
HandleSelect(i) ==
    /\ HandlerAt(i, "select")
    /\ conns' = [conns EXCEPT ![i].hpc =
                    IF conns[i].closeChan THEN "return" ELSE "deadline"]
    /\ UNCHANGED <<HandlerFrame, contexts, storeAux, codecVars>>

\* Handle: c.conn.SetReadDeadline fails on a closed socket, and Handle returns
HandleSetReadDeadline(i) ==
    /\ HandlerAt(i, "deadline")
    /\ conns' = [conns EXCEPT ![i].hpc =
                    IF conns[i].sock = "closed" THEN "return" ELSE "read"]
    /\ UNCHANGED <<HandlerFrame, contexts, storeAux, codecVars>>

\* Handle: on an error of ReadString the handler logs and returns
AfterReadErrorRetry == "select"
AfterReadError == "return"

\* Handle: reader.ReadString('\n') returns an error (end of stream, the
\* deadline, a closed socket), and Handle returns
HandleReadError(i) ==
    /\ HandlerAt(i, "read")
    /\ ~conns[i].buffered
    /\ conns' = [conns EXCEPT ![i].hpc = AfterReadError]
    /\ UNCHANGED <<HandlerFrame, contexts, storeAux, codecVars>>

\* Handle: a line that does not parse is logged, and the loop continues
AfterParseErrorReturn == "return"
AfterParseError == "select"

\* handleMessage: the switch on msg.Type
HandlerAfterReplies(msg) ==
    IF msg.Type = TypeContext /\ DOMAIN msg.Params # {} THEN "ctx"
    ELSE IF msg.Type = TypeContext THEN "ack" ELSE "pong"
HandlerAfter(msg) ==
    IF msg.Type = TypePing THEN "pong"
    ELSE IF msg.Type = TypeContext
         THEN (IF DOMAIN msg.Params = {} THEN "ack" ELSE "ctx")
         ELSE "select"

Dispatched(msg) == msg.Type \in {TypePing, TypeContext}

\* Handle: reader.ReadString('\n') returns a line, from the socket or from
\* what the reader has buffered (more is then in the buffer), protocol.Parse
\* fails and the loop continues, or succeeds and handleMessage dispatches
HandleReadLine(i, line) ==
    /\ HandlerAt(i, "read")
    /\ conns[i].sock = "open" \/ conns[i].buffered
    /\ LinesRead(Len(conns)) < MaxLines
    /\ \E more \in (IF LinesRead(Len(conns)) + 1 < MaxLines THEN BOOLEAN ELSE {FALSE}) :
         LET r == Parse(line) IN
           conns' = [conns EXCEPT
             ![i].nread = @ + 1,
             ![i].buffered = more,
             ![i].hpc = IF r.ok THEN HandlerAfter(r.msg) ELSE AfterParseError,
             ![i].msg = IF r.ok /\ Dispatched(r.msg) THEN r.msg ELSE NoMsg,
             ![i].todo = IF r.ok /\ r.msg.Type = TypeContext
                         THEN DOMAIN r.msg.Params ELSE {},
             ![i].log = IF ~r.ok
                        THEN Append(@, [kind |-> "bad", text |-> <<>>])
                        ELSE IF Dispatched(r.msg)
                             THEN Append(@, [kind |-> "req", text |-> r.msg.Type])
                             ELSE @]
    /\ UNCHANGED <<HandlerFrame, contexts, storeAux, codecVars>>

\* handleContextUpdate: the client the pairs are stored for, c.id
ContextClientAddr(c) == <<c.id[1], 0>>
ContextClient(c) == c.id

\* handleContextUpdate: c.store.Set(c.id, key, value) for one more pair of
\* the range over msg.Params
HandleContextSet(i) ==
    /\ HandlerAt(i, "ctx")
    /\ \E k \in conns[i].todo :
         /\ contexts' = Set(contexts, ContextClient(conns[i]), k,
                             conns[i].msg.Params[k])
         /\ conns' = [conns EXCEPT
              ![i].todo = @ \ {k},
              ![i].hpc = IF conns[i].todo = {k} THEN "ack" ELSE "ctx"]
    /\ UNCHANGED <<HandlerFrame, storeAux, codecVars>>

\* handlePing and handleContextUpdate: the response they build
Response(pc) ==
    IF pc = "pong"
    THEN NewMessage(TypePong, [k \in {<<"t", "i", "m", "e">>} |-> UnixTimeText])
    ELSE NewMessage(TypeAck, [k \in {<<"s", "t", "a", "t", "u", "s">>} |-> <<"o", "k">>])

\* Send: c.conn.Write([]byte(msg.Format() + "\n")); an error is logged and not
\* returned. A write on a closed socket fails; one on an open socket may.
SendNothing(i, ok) ==
    /\ Alive
    /\ i \in DOMAIN conns
    /\ conns[i].hpc \in {"pong", "ack"}
    /\ conns' = [conns EXCEPT ![i].hpc = "select", ![i].msg = NoMsg]
    /\ UNCHANGED <<HandlerFrame, contexts, storeAux, codecVars>>
Send(i, ok) ==
    /\ Alive
    /\ i \in DOMAIN conns
    /\ conns[i].hpc \in {"pong", "ack"}
    /\ ok => conns[i].sock = "open"
    /\ \E text \in Formats(Response(conns[i].hpc)) :
         conns' = [conns EXCEPT
           ![i].hpc = "select",
           ![i].msg = NoMsg,
           ![i].log = Append(@, [kind |-> IF ok THEN "resp" ELSE "fail",
                                 text |-> text \o <<LF>>])]
    /\ UNCHANGED <<HandlerFrame, contexts, storeAux, codecVars>>

HandleSend(i) == \E ok \in BOOLEAN : Send(i, ok)

\* Handle: defer c.Close(), when Handle returns
HandleClose(i) ==
    /\ HandlerAt(i, "return")
    /\ \/ /\ OnceRuns(conns[i])
          /\ conns' = [conns EXCEPT ![i] = [CloseBegin(@) EXCEPT !.hpc = "closing"]]
       \/ /\ OnceSkips(conns[i])
          /\ conns' = [conns EXCEPT ![i].hpc = "exited"]
    /\ UNCHANGED <<HandlerFrame, contexts, storeAux, codecVars>>

HandleCloseEnd(i) ==
    /\ HandlerAt(i, "closing")
    /\ conns' = [conns EXCEPT ![i] = [CloseEnd(@) EXCEPT !.hpc = "exited"]]
    /\ contexts' = StoreAfterClose(contexts, conns[i])
    /\ UNCHANGED <<HandlerFrame, storeAux, codecVars>>

\* Shutdown: close(s.closeChan), which panics on a closed channel
ShutdownCall ==
    /\ Alive
    /\ shutdown.pc \in {"idle", "returned"}
    /\ IF sCloseChan
       THEN shutdown' = [shutdown EXCEPT !.pc = "panic", !.ret = "-"]
       ELSE shutdown' = [shutdown EXCEPT !.pc = "closeListener", !.ret = "-"]
    /\ sCloseChan' = TRUE
    /\ UNCHANGED <<listener, smu, acceptPc, connections, conns,
                   contexts, storeAux, codecVars>>

\* Shutdown: if s.listener != nil { err := s.listener.Close() ... }; the
\* field is nil until Start has assigned it
ShutdownCloseListener ==
    /\ Alive
    /\ shutdown.pc = "closeListener"
    /\ IF listener = "open"
       THEN listener' = "closed"
       ELSE UNCHANGED listener
    /\ shutdown' = [shutdown EXCEPT !.pc = "lock"]
    /\ UNCHANGED <<sCloseChan, smu, acceptPc, connections, conns,
                   contexts, storeAux, codecVars>>

\* Shutdown: s.listener.Close() returns an error, and Shutdown returns it;
\* the error leaves open whether the socket was released. Start assigns
\* s.listener with no synchronisation: a read of the half-assigned field
\* finds it non-nil and calls Close on a nil listener, which returns an error.
ShutdownListenerError ==
    /\ Alive
    /\ shutdown.pc = "closeListener"
    /\ \/ listener = "open" /\ listener' \in {"open", "closed"}
       \/ listener = "bound" /\ UNCHANGED listener
    /\ shutdown' = [shutdown EXCEPT !.pc = "returned", !.ret = "err"]
    /\ UNCHANGED <<sCloseChan, smu, acceptPc, connections, conns,
                   contexts, storeAux, codecVars>>

\* Shutdown: s.mu.Lock(); defer s.mu.Unlock()
ShutdownLock ==
    /\ Alive
    /\ shutdown.pc = "lock"
    /\ smu = "none"
    /\ smu' = "shutdown"
    /\ shutdown' = [shutdown EXCEPT !.pc = "loop"]
    /\ UNCHANGED <<listener, sCloseChan, acceptPc, connections, conns,
                   contexts, storeAux, codecVars>>

\* delete(s.connections, id)
Delete(table, id) == [x \in DOMAIN table \ {id} |-> table[x]]

\* Shutdown: for id, conn := range s.connections { conn.Close(); ... }, the
\* call of Close on the next connection of the range
ShutdownClose ==
    /\ Alive
    /\ shutdown.pc = "loop"
    /\ \E id \in DOMAIN connections :
         LET i == connections[id] IN
           \/ /\ OnceRuns(conns[i])
              /\ conns' = [conns EXCEPT ![i] = CloseBegin(@)]
              /\ shutdown' = [shutdown EXCEPT !.pc = "closing", !.cur = i]
              /\ UNCHANGED connections
           \/ /\ OnceSkips(conns[i])
              /\ connections' = Delete(connections, id)
              /\ UNCHANGED <<conns, shutdown>>
    /\ UNCHANGED <<listener, sCloseChan, smu, acceptPc,
                   contexts, storeAux, codecVars>>

\* Shutdown: conn.Close() returns; delete(s.connections, id)
ShutdownCloseEnd ==
    /\ Alive
    /\ shutdown.pc = "closing"
    /\ conns' = [conns EXCEPT ![shutdown.cur] = CloseEnd(@)]
    /\ connections' = Delete(connections, conns[shutdown.cur].id)
    /\ shutdown' = [shutdown EXCEPT !.pc = "loop", !.cur = 0]
    /\ contexts' = StoreAfterClose(contexts, conns[shutdown.cur])
    /\ UNCHANGED <<listener, sCloseChan, smu, acceptPc, storeAux, codecVars>>

\* Shutdown: the range is over; return nil, and the deferred s.mu.Unlock()
ShutdownReturn ==
    /\ Alive
    /\ shutdown.pc = "loop"
    /\ DOMAIN connections = {}
    /\ smu' = "none"
    /\ shutdown' = [shutdown EXCEPT !.pc = "returned", !.ret = "nil"]
    /\ UNCHANGED <<listener, sCloseChan, acceptPc, connections, conns,
                   contexts, storeAux, codecVars>>

ConnIndex == 1 .. MaxConns

ServerNext ==
    \/ StartBindError
    \/ StartListen
    \/ StartAccepting
    \/ AcceptSelect
    \/ AcceptConn
    \/ AcceptError
    \/ AcceptRegister
    \/ ShutdownCall
    \/ ShutdownCloseListener
    \/ ShutdownListenerError
    \/ ShutdownLock
    \/ ShutdownClose
    \/ ShutdownCloseEnd
    \/ ShutdownReturn
    \/ \E i \in ConnIndex : HandleSelect(i)
    \/ \E i \in ConnIndex : HandleSetReadDeadline(i)
    \/ \E i \in ConnIndex : HandleReadError(i)
    \/ \E i \in ConnIndex : \E line \in Lines : HandleReadLine(i, line)
    \/ \E i \in ConnIndex : HandleContextSet(i)
    \/ \E i \in ConnIndex : HandleSend(i)
    \/ \E i \in ConnIndex : HandleClose(i)
    \/ \E i \in ConnIndex : HandleCloseEnd(i)

----------------------------------------------------------------------------
(* The specifications                                                      *)

\* the server not started
ServerOff == ServerInit

\* the codec harness left alone
CodecOff ==
    /\ cpc = "off"
    /\ cin = [kind |-> "none"]
    /\ wire = <<>>
    /\ cout = [ok |-> FALSE, err |-> "none"]

InitCodec == CodecInit /\ StoreInit /\ ServerOff
SpecCodec == InitCodec /\ [][CodecNext]_vars

InitStore == StoreInit /\ CodecOff /\ ServerOff
SpecStore == InitStore /\ [][StoreNext]_vars

InitSetRace == SetRaceInit /\ CodecOff /\ ServerOff
SpecSetRace == InitSetRace /\ [][SetRaceNext]_vars

InitBatchRace == BatchRaceInit /\ CodecOff /\ ServerOff
SpecBatchRace == InitBatchRace /\ [][BatchRaceNext]_vars

InitServer == ServerInit /\ StoreInit /\ CodecOff
SpecServer == InitServer /\ [][ServerNext]_vars

\* The goroutines of the server are scheduled: the accept loop takes its
\* next step (Accept returns at once on a closed listener), Shutdown goes
\* on once called, and a Close that has begun ends. Nothing is assumed of
\* the clients or of calls from outside.
AcceptErrorClosed == AcceptError /\ listener = "closed"
ServerFairness ==
    /\ WF_vars(AcceptSelect)
    /\ WF_vars(AcceptErrorClosed)
    /\ WF_vars(AcceptRegister)
    /\ WF_vars(ShutdownCloseListener)
    /\ WF_vars(ShutdownLock)
    /\ WF_vars(ShutdownClose)
    /\ WF_vars(ShutdownCloseEnd)
    /\ WF_vars(ShutdownReturn)
    /\ \A i \in ConnIndex : WF_vars(HandleCloseEnd(i))
SpecServerFair == InitServer /\ [][ServerNext]_vars /\ ServerFairness

----------------------------------------------------------------------------
(* Claims about the store                                                  *)

AllIdle == \A t \in Tasks : task[t].pc = "idle"

\* a SetMultiple that has applied some of its pairs and not yet all
MidBatch(w) ==
    /\ At(w, "SetMultiple", "putm")
    /\ task[w].todo # {}
    /\ task[w].todo # DOMAIN task[w].batch

\* a snapshot that holds every pair of the batch, or none of them
AllOrNone(vals, batch) ==
    \/ \A k \in DOMAIN batch : k \in DOMAIN vals /\ vals[k] = batch[k]
    \/ \A k \in DOMAIN batch : k \notin DOMAIN vals \/ vals[k] # batch[k]

\* C3 (SpecBatchRace): while a SetMultiple call has not returned, the map a
\* GetAll of its client returns holds all of the batch's pairs or none, and
\* no reader of any kind is inside its read lock between two pairs of the
\* batch.
C3_SetMultipleAtomic ==
    \A w \in Tasks :
        task[w].op = "SetMultiple" =>
            /\ \A t \in Tasks :
                 (At(t, "GetAll", "ret") /\ task[t].c = task[w].c)
                     => AllOrNone(task[t].ret.vals, task[w].batch)
            /\ MidBatch(w) => ~\E t \in Tasks : task[t].pc = "ret"

\* a GetAll returned the old values of both keys while a SetMultiple of two
\* pairs on them waits for the lock
C3_Witness ==
    \E w, t \in Tasks :
        /\ At(w, "SetMultiple", "lock")
        /\ DOMAIN task[w].batch = CallKeys
        /\ At(t, "GetAll", "ret")
        /\ task[t].ret.found
        /\ \A k \in CallKeys : k \in DOMAIN task[t].ret.vals

\* C4 (SpecSetRace): N tasks call Set concurrently on pairwise distinct keys
\* of one client, whose context may not exist yet; once all have returned
\* the context exists and holds each of the N keys with the value written.
C4_ConcurrentSetsSurvive ==
    AllIdle =>
        /\ Exists(contexts, "c1")
        /\ \A k \in Keys :
             lastWrite[<<"c1", k>>] \in Values
                 => Get(contexts, "c1", k) = [val |-> lastWrite[<<"c1", k>>], found |-> TRUE]
        /\ Cardinality({k \in Keys : Get(contexts, "c1", k).val \in Values}) = NTasks

\* all the Set calls have returned and the context holds their keys only
C4_Witness ==
    /\ AllIdle
    /\ Cardinality(DOMAIN contexts["c1"]) = NTasks
    /\ \A k \in DOMAIN contexts["c1"] : contexts["c1"][k] \in Values

\* C8 (SpecStore): Get(clientID, key) returns (v, true) exactly when the last
\* write to (clientID, key) is a Set or SetMultiple of v with no Remove of
\* the key and no Clear of the client after it, and ("", false) otherwise.
C8_GetReturnsLastWrite ==
    \A t \in Tasks :
        At(t, "Get", "ret") =>
            task[t].ret =
                IF lastWrite[<<task[t].c, task[t].k>>] # NoValue
                THEN [val |-> lastWrite[<<task[t].c, task[t].k>>], found |-> TRUE]
                ELSE [val |-> "", found |-> FALSE]

\* a Get found nothing under a key of a client whose other key is set: the
\* key was never set, or was removed
C8_Witness ==
    \E t \in Tasks :
        /\ At(t, "Get", "ret")
        /\ task[t].ret = [val |-> "", found |-> FALSE]
        /\ Exists(contexts, task[t].c)
        /\ contexts[task[t].c] # EmptyValues

----------------------------------------------------------------------------
(* Claims about the codec, checked under SpecCodec                         *)

Separators == {":", ";", "="}

\* every field of a Message: its type tag, its keys and its values
FieldsOf(m) == {m.Type} \cup DOMAIN m.Params \cup {m.Params[k] : k \in DOMAIN m.Params}

NoSeparators(m) == \A f \in FieldsOf(m) : Range(f) \cap Separators = {}

NoOuterBlanks(s) == s = <<>> \/ (~IsSpace(s[1]) /\ ~IsSpace(s[Len(s)]))

\* the parsed Message has m's type tag and m's set of (key, value) pairs
RoundTrips(m) ==
    /\ cout.ok
    /\ cout.msg.Type = m.Type
    /\ {<<k, cout.msg.Params[k]>> : k \in DOMAIN cout.msg.Params}
         = {<<k, m.Params[k]>> : k \in DOMAIN m.Params}

\* C9 as stated: every Message whose type tag, keys and values hold none of
\* ':', ';', '=' survives Parse(Format(m)) with its type tag and pairs.
C9_RoundTripAnySeparatorFree ==
    (cpc = "roundtrip" /\ NoSeparators(cin.msg)) => RoundTrips(cin.msg)

\* C9 amended: a Message whose type tag and keys are non-empty, and whose
\* type tag, keys and values hold none of ':', ';', '=' and neither begin nor
\* end with whitespace, survives Parse(Format(m)) with its type tag and pairs,
\* whatever order Format ranges over the parameters in.
C9_RoundTrip ==
    (/\ cpc = "roundtrip"
     /\ NoSeparators(cin.msg)
     /\ cin.msg.Type # <<>>
     /\ <<>> \notin DOMAIN cin.msg.Params
     /\ \A f \in FieldsOf(cin.msg) : NoOuterBlanks(f))
    => RoundTrips(cin.msg)

\* a two-parameter Message with an inner blank and an empty value went
\* through Format and Parse
C9_Witness ==
    /\ cpc = "roundtrip"
    /\ cin.msg.Type = TypePing
    /\ DOMAIN cin.msg.Params = {<<"a">>, <<"b">>}
    /\ cin.msg.Params[<<"a">>] = <<"1", " ", "2">>
    /\ cin.msg.Params[<<"b">>] = <<>>
    /\ wire[Len(TypePing) + 2] = "b"
    /\ RoundTrips(cin.msg)

\* the input with its leading and trailing whitespace cut, stated by
\* positions: from its first to its last non-blank character
Trimmed(s) ==
    LET solid == {i \in 1..Len(s) : ~IsSpace(s[i])} IN
    IF solid = {} THEN <<>>
    ELSE SubSeq(s, CHOOSE i \in solid : \A j \in solid : i <= j,
                   CHOOSE i \in solid : \A j \in solid : j <= i)

FirstAt(s, ch) == CHOOSE i \in 1..Len(s) : s[i] = ch /\ \A j \in 1..(i - 1) : s[j] # ch

\* the text after the first ':' of a trimmed line that holds one
SectionOf(t) == SubSeq(t, FirstAt(t, ":") + 1, Len(t))

\* the ';'-separated pairs of a parameter section, stated by positions
PairsOf(sec) ==
    LET cuts == {0, Len(sec) + 1} \cup {i \in 1..Len(sec) : sec[i] = ";"} IN
    {SubSeq(sec, a + 1, b - 1) :
        <<a, b>> \in {x \in cuts \X cuts :
                        x[1] < x[2] /\ ~\E c \in cuts : x[1] < c /\ c < x[2]}}

\* the text before the first '=' of a pair that holds one
KeyOf(pair) == SubSeq(pair, 1, FirstAt(pair, "=") - 1)

\* the conditions under which a line is malformed; EmptyKey(k) says when a
\* key counts as empty
Malformed(raw, EmptyKey(_)) ==
    LET t == Trimmed(raw) IN
    \/ t = <<>>
    \/ ":" \notin Range(t)
    \/ t[1] = ":"
    \/ /\ SectionOf(t) # <<>>
       /\ \E p \in PairsOf(SectionOf(t)) : "=" \notin Range(p) \/ EmptyKey(KeyOf(p))

\* a trimmed line of the form TYPE: , its only ':' being its last character
TypeOnly(raw) ==
    LET t == Trimmed(raw) IN
    Len(t) >= 2 /\ t[Len(t)] = ":" /\ \A i \in 1..(Len(t) - 1) : t[i] # ":"

IsEmptyText(k) == k = <<>>
IsBlankText(k) == \A i \in 1..Len(k) : IsSpace(k[i])

ParseAgrees(EmptyKey(_)) ==
    cpc = "parsed" =>
        /\ cout.ok <=> ~Malformed(cin.raw, EmptyKey)
        /\ TypeOnly(cin.raw) => (cout.ok /\ DOMAIN cout.msg.Params = {})

\* C10 as stated: Parse fails exactly when the trimmed input is empty, has
\* no ':', has an empty type before the first ':', or has a non-empty
\* parameter section one of whose ';'-separated pairs lacks '=' or has the
\* empty key; "TYPE:" parses to zero parameters.
C10_ParseRejectsEmptyKeyOnly == ParseAgrees(IsEmptyText)

\* C10 amended: the same, a key counting as empty when it is empty or all
\* whitespace (Parse trims the key before it tests it).
C10_ParseRejects == ParseAgrees(IsBlankText)

\* Parse rejected a pair whose key is one blank
C10_Witness ==
    /\ cpc = "parsed"
    /\ cin.raw = <<"a", ":", " ", "=", "a">>
    /\ ~cout.ok
    /\ cout.err = "empty parameter key"

----------------------------------------------------------------------------
(* Claims about the server and its connections, checked under SpecServer   *)

Last(s) == s[Len(s)]

\* a call of Shutdown returns in this step
ShutdownReturns == shutdown.pc # "returned" /\ shutdown'.pc = "returned"

\* C1: when a call of Shutdown returns, with nil or with the error of the
\* listener's Close, the listening socket is closed, every connection that
\* was registered in the table has its socket closed, and the table is empty.
C1_ShutdownClosesEverything ==
    [][ShutdownReturns =>
         /\ listener' \notin {"bound", "open"}
         /\ \A i \in DOMAIN conns' : conns'[i].reg => conns'[i].sock = "closed"
         /\ DOMAIN connections' = {}]_vars

\* C2: whatever the interleaving of the Close of the handler's exit and the
\* Close of Shutdown, the close signal of a connection is raised at most once
\* and its socket is closed at most once; both are done exactly once when a
\* call of Close has returned, and the connection is closed from then on.
C2_CloseExactlyOnce ==
    \A i \in DOMAIN conns :
      LET c == conns[i] IN
        /\ c.chanCloses = (IF c.closeChan THEN 1 ELSE 0)
        /\ c.sockCloses = (IF c.sock = "closed" THEN 1 ELSE 0)
        /\ c.once = "new" <=> ~c.closeChan
        /\ c.once = "done" <=> c.sock = "closed"
        /\ c.hpc = "exited" => c.once = "done"
        /\ (c.reg /\ c.id \notin DOMAIN connections) => c.once = "done"

\* both the handler and Shutdown have called Close on one connection
C2_Witness ==
    \E i \in DOMAIN conns :
      /\ conns[i].hpc = "exited"
      /\ conns[i].reg
      /\ conns[i].id \notin DOMAIN connections
      /\ conns[i].chanCloses = 1
      /\ conns[i].sockCloses = 1

\* the lines a client may send that Parse rejects
BadLines == {line \in Lines : ~Parse(line).ok}

\* a malformed line was read on the connection
Garbled(c) == \E n \in DOMAIN c.log : c.log[n].kind = "bad"

\* the text is a PONG with the time as its one parameter
IsPong(text) ==
    LET r == Parse(text) IN
      /\ r.ok
      /\ r.msg.Type = TypePong
      /\ DOMAIN r.msg.Params = {<<"t", "i", "m", "e">>}
      /\ r.msg.Params[<<"t", "i", "m", "e">>] = UnixTimeText

\* the text is an ACK with status=ok as its one parameter
IsAck(text) ==
    LET r == Parse(text) IN
      /\ r.ok
      /\ r.msg.Type = TypeAck
      /\ DOMAIN r.msg.Params = {<<"s", "t", "a", "t", "u", "s">>}
      /\ r.msg.Params[<<"s", "t", "a", "t", "u", "s">>] = <<"o", "k">>

\* C5: reading a line that does not parse leaves the connection in its read
\* loop, its socket and its close signal as they were, writes no response
\* and leaves the store unchanged; a PING read after it on the same
\* connection is dispatched, and its PONG is the next thing sent.
C5_MalformedLineKeepsOpen ==
    [][\A i \in ConnIndex :
         /\ \A line \in BadLines :
              HandleReadLine(i, line) =>
                /\ conns'[i].hpc = "select"
                /\ conns'[i].sock = conns[i].sock
                /\ conns'[i].closeChan = conns[i].closeChan
                /\ conns'[i].once = conns[i].once
                /\ conns'[i].log = Append(conns[i].log, [kind |-> "bad", text |-> <<>>])
                /\ contexts' = contexts
                /\ connections' = connections
         /\ (i \in DOMAIN conns /\ Garbled(conns[i]) /\ HandleReadLine(i, LinePing)) =>
              /\ conns'[i].hpc = "pong"
              /\ conns'[i].log = Append(conns[i].log, [kind |-> "req", text |-> TypePing])
         /\ (i \in DOMAIN conns /\ Garbled(conns[i])
               /\ conns[i].hpc = "pong" /\ conns'[i].hpc # "pong") =>
              /\ conns'[i].hpc = "select"
              /\ Len(conns'[i].log) = Len(conns[i].log) + 1
              /\ Last(conns'[i].log).kind \in {"resp", "fail"}
              /\ IsPong(Last(conns'[i].log).text)]_vars

\* a connection read a malformed line, then a PING, and the PONG was written
C5_Witness ==
    \E i \in DOMAIN conns :
      /\ Len(conns[i].log) = 3
      /\ conns[i].log[1].kind = "bad"
      /\ conns[i].log[2] = [kind |-> "req", text |-> TypePing]
      /\ conns[i].log[3].kind = "resp"
      /\ IsPong(conns[i].log[3].text)
      /\ conns[i].sock = "open"
      /\ conns[i].hpc = "select"

\* the handler of connection i writes the ACK in this step
AckWritten(i) ==
    /\ i \in DOMAIN conns
    /\ conns[i].hpc = "ack"
    /\ conns'[i].hpc # "ack"
    /\ Last(conns'[i].log).kind = "resp"

\* the handler of connection i stores one pair in this step
PairStored(i) ==
    /\ i \in DOMAIN conns
    /\ conns[i].hpc = "ctx"
    /\ conns'[i].todo # conns[i].todo

\* C6: when the ACK of a CONTEXT message is written, it says status=ok and
\* GetAll of the connection's identifier has every pair of the message; each
\* pair the handler stores changes the context of no other identifier.
C6_ContextStoredBeforeAck ==
    [][\A i \in ConnIndex :
         /\ AckWritten(i) =>
              LET params == conns[i].msg.Params
                  before == GetAll(contexts, conns[i].id)
                  after  == GetAll(contexts', conns[i].id)
              IN /\ IsAck(Last(conns'[i].log).text)
                 /\ before.found /\ after.found
                 /\ \A k \in DOMAIN params :
                      /\ k \in DOMAIN before.vals /\ before.vals[k] = params[k]
                      /\ k \in DOMAIN after.vals /\ after.vals[k] = params[k]
         /\ PairStored(i) =>
              /\ DOMAIN contexts' = DOMAIN contexts \cup {conns[i].id}
              /\ \A c \in DOMAIN contexts \ {conns[i].id} : contexts'[c] = contexts[c]]_vars

\* an ACK was written for a CONTEXT of two pairs, which GetAll returns, while
\* another client has a context of its own
C6_Witness ==
    \E i \in DOMAIN conns :
      /\ Len(conns[i].log) >= 2
      /\ Last(conns[i].log).kind = "resp"
      /\ IsAck(Last(conns[i].log).text)
      /\ GetAll(contexts, conns[i].id).found
      /\ GetAll(contexts, conns[i].id).vals =
           (<<"a">> :> <<"1">>) @@ (<<"b">> :> <<"2">>)
      /\ \E c \in DOMAIN contexts : c # conns[i].id

\* the requests and the responses of a connection, in order
Exchange(c) == SelectSeq(c.log, LAMBDA e : e.kind # "bad")

\* the response answers the request
Answers(req, resp) ==
    IF req.text = TypePing THEN IsPong(resp.text) ELSE IsAck(resp.text)

\* one request at a time: each PING or CONTEXT is followed, before the next
\* line is read, by one attempt to write its PONG or ACK
OneAtATime(c) ==
    LET x == Exchange(c) IN
      /\ \A n \in DOMAIN x :
           IF n % 2 = 1
           THEN x[n].kind = "req" /\ x[n].text \in {TypePing, TypeContext}
           ELSE x[n].kind \in {"resp", "fail"} /\ Answers(x[n - 1], x[n])
      /\ c.hpc \in {"pong", "ctx", "ack"} <=> Len(x) % 2 = 1
      /\ c.hpc = "pong" => Last(x).text = TypePing
      /\ c.hpc \in {"ctx", "ack"} => Last(x).text = TypeContext

\* every attempt to write a response succeeded
AllWritten(c) == \A n \in DOMAIN c.log : c.log[n].kind # "fail"

Closes(i) == i \in DOMAIN conns /\ conns'[i].once # conns[i].once

\* C11: a step of Close, from the handler's exit or from Shutdown, leaves the
\* store as it was, so Get and GetAll return for every client what they
\* returned before; the pairs stored under the identifier of a closed
\* connection stay, with their values, through every later step that is not
\* a Set under that identifier (the server calls neither Remove nor Clear).
C11_CloseLeavesStore ==
    [][/\ (\E i \in ConnIndex : Closes(i)) =>
            /\ DOMAIN contexts' = DOMAIN contexts
            /\ \A c \in DOMAIN contexts :
                 /\ GetAll(contexts', c) = GetAll(contexts, c)
                 /\ \A k \in DOMAIN contexts[c] :
                      Get(contexts', c, k) = Get(contexts, c, k)
       /\ \A i \in DOMAIN conns :
            (/\ conns[i].once = "done"
             /\ ~\E j \in ConnIndex : PairStored(j) /\ conns[j].id = conns[i].id) =>
              GetAll(contexts', conns[i].id) = GetAll(contexts, conns[i].id)]_vars

\* a connection that stored two pairs was closed by its handler's exit, another
\* by Shutdown, and GetAll still returns the pairs of each
C11_Witness ==
    \E i, j \in DOMAIN conns :
      /\ i # j
      /\ conns[i].id # conns[j].id
      /\ conns[i].hpc = "exited" /\ conns[i].once = "done"
      /\ conns[i].id \in DOMAIN connections
      /\ conns[j].once = "done" /\ conns[j].reg
      /\ conns[j].id \notin DOMAIN connections
      /\ DOMAIN GetAll(contexts, conns[i].id).vals = {<<"a">>, <<"b">>}
      /\ GetAll(contexts, conns[j].id).vals = (<<"a">> :> <<"2">>)

\* the positions of a handler that has stopped reading
Stopped == {"return", "closing", "exited"}

\* C12: a read that returns an error (the deadline included) sends the
\* handler to its exit and changes no other connection, the table or the
\* store; from there the handler never reads or dispatches again, its steps
\* are those of Close and change no other connection, and when it has
\* exited its close signal is raised and its socket closed.
C12_ReadErrorClosesOnlyThatConnection ==
    [][\A i \in ConnIndex :
         /\ HandleReadError(i) =>
              /\ conns'[i] = [conns[i] EXCEPT !.hpc = "return"]
              /\ \A j \in DOMAIN conns \ {i} : conns'[j] = conns[j]
              /\ connections' = connections
              /\ contexts' = contexts
         /\ (i \in DOMAIN conns /\ conns[i].hpc \in Stopped) =>
              /\ conns'[i].hpc \in Stopped
              /\ conns'[i].nread = conns[i].nread
              /\ conns'[i].log = conns[i].log
         /\ (i \in DOMAIN conns /\ conns[i].hpc \in Stopped
               /\ conns'[i].hpc # conns[i].hpc) =>
              /\ \A j \in DOMAIN conns \ {i} : conns'[j] = conns[j]
              /\ connections' = connections
              /\ contexts' = contexts
              /\ conns'[i].hpc = "exited" =>
                   conns'[i].closeChan /\ conns'[i].sock = "closed"]_vars

\* with no Shutdown called, one connection has closed on a read error while
\* another, accepted before, is still open and reading
C12_Witness ==
    \E i, j \in DOMAIN conns :
      /\ i # j
      /\ shutdown.pc = "idle"
      /\ conns[j].hpc = "exited" /\ conns[j].sock = "closed"
      /\ conns[i].hpc = "read" /\ conns[i].sock = "open"
      /\ ~conns[i].closeChan
      /\ conns[i].nread > 0

\* C13: a connection that has reached Closed is not registered in the
\* server's table.
C13_ClosedNotRegistered ==
    \A i \in DOMAIN conns :
      conns[i].once = "done" =>
        ~(conns[i].id \in DOMAIN connections /\ connections[conns[i].id] = i)

\* a write of a response has failed on the connection
WriteFailed(c) == \E n \in DOMAIN c.log : c.log[n].kind = "fail"

\* C14: once a Send has failed on a connection, its handler arms no read
\* deadline, reads no line and dispatches no message any more: the
\* connection goes to Closed.
C14_WriteFailureIsFatal ==
    [][\A i \in DOMAIN conns :
         WriteFailed(conns[i]) =>
           /\ conns'[i].hpc \in {"select"} \cup Stopped
           /\ conns'[i].nread = conns[i].nread
           /\ conns'[i].log = conns[i].log]_vars

\* the lines a client may send that parse to a message of another type than
\* PING and CONTEXT
OtherLines == {line \in Lines : Parse(line).ok /\ ~Dispatched(Parse(line).msg)}

\* C15: reading a line that parses to a message whose type is neither PING
\* nor CONTEXT (PONG, ACK, ERROR or an unknown tag) writes no response,
\* leaves the store, the table and every other connection unchanged, closes
\* nothing, and puts the handler back at the top of its read loop.
C15_OtherTypesHaveNoEffect ==
    [][\A i \in ConnIndex : \A line \in OtherLines :
         HandleReadLine(i, line) =>
           /\ conns'[i].hpc = "select"
           /\ conns'[i].log = conns[i].log
           /\ conns'[i].sock = conns[i].sock
           /\ conns'[i].closeChan = conns[i].closeChan
           /\ conns'[i].once = conns[i].once
           /\ \A j \in DOMAIN conns \ {i} : conns'[j] = conns[j]
           /\ contexts' = contexts
           /\ connections' = connections]_vars

\* a connection has read two lines, neither malformed nor dispatched, and is
\* open and about to read again, nothing written and nothing stored
C15_Witness ==
    /\ {TypePong, TypeAck, TypeError} \subseteq {Parse(line).msg.Type : line \in OtherLines}
    /\ \E line \in OtherLines : ~ValidateMessageType(Parse(line).msg.Type)
    /\ \E i \in DOMAIN conns :
         /\ conns[i].nread = 2
         /\ conns[i].log = <<>>
         /\ conns[i].hpc = "read"
         /\ conns[i].sock = "open" /\ ~conns[i].closeChan
         /\ DOMAIN contexts = {}

\* C16: no two connections accepted by the process have the same
\* identifier, so no registration overwrites an entry of the table and no
\* two connections write to one context of the store.
C16_UniqueIdentifiers ==
    \A i, j \in DOMAIN conns : i # j => conns[i].id # conns[j].id

\* the clients whose context has the key set to exactly the value
Holders(ctxs, key, value) ==
    {c \in DOMAIN ctxs : key \in DOMAIN ctxs[c] /\ ctxs[c][key] = value}

\* task t runs the body of QueryClients in this step
Queries(t) == ~At(t, "QueryClients", "ret") /\ task'[t].op = "QueryClients"
                /\ task'[t].pc = "ret"

\* C17 (SpecStore): in any store state, the slice QueryClients(key, value)
\* returns holds each client whose context has key set to exactly value,
\* once, and no other client; the call leaves the store unchanged, from its
\* body to its return.
C17_QueryClientsExact ==
    [][\A t \in Tasks :
         /\ Queries(t) =>
              LET matches == task'[t].ret IN
                /\ Range(matches) = Holders(contexts, task'[t].k, task'[t].v)
                /\ Len(matches) = Cardinality(Range(matches))
                /\ contexts' = contexts
         /\ At(t, "QueryClients", "ret") => contexts' = contexts]_vars

\* a QueryClients returned one client while the other client holds the key
\* with another value
C17_Witness ==
    \E t \in Tasks :
      /\ At(t, "QueryClients", "ret")
      /\ Len(task[t].ret) = 1
      /\ \E c \in DOMAIN contexts :
           /\ c # task[t].ret[1]
           /\ task[t].k \in DOMAIN contexts[c]
           /\ contexts[c][task[t].k] # task[t].v

\* shutdown has been requested and the listener is closed
ListenerShut == sCloseChan /\ listener = "closed"

\* C18 (SpecServerFair): an accept error while shutdown has not been
\* requested puts the loop back at its top, the loop has not exited in any
\* state where shutdown has not been requested, and once Shutdown has
\* closed s.closeChan and the listener the loop exits (or the process has
\* ended in a panic).
C18_AcceptLoopExit ==
    /\ [][(AcceptError /\ ~sCloseChan) => acceptPc' = "select"]_vars
    /\ [](acceptPc = "exited" => sCloseChan)
    /\ ListenerShut ~> (acceptPc = "exited" \/ ~Alive)

\* the loop has exited after Shutdown closed the listener, with a connection
\* accepted before
C18_Witness ==
    /\ acceptPc = "exited"
    /\ ListenerShut
    /\ Alive
    /\ Len(conns) > 0

\* C19: once Shutdown has returned, its cleanup pass done (it returned
\* nil), the table is empty and no connection accepted by the loop has an
\* open socket, whatever the interleaving of the accept loop with Shutdown.
C19_NothingRegisteredAfterShutdown ==
    (shutdown.pc = "returned" /\ shutdown.ret = "nil") =>
      /\ DOMAIN connections = {}
      /\ \A i \in DOMAIN conns :
           conns[i].hpc # "new" => conns[i].sock = "closed"

\* C20: a call of Shutdown in any state of the server, before Start or
\* after an earlier Shutdown, does not crash the process, and when it
\* returns the server is shut down and its table is empty.
C20_ShutdownSafeInAnyState ==
    [][/\ shutdown'.pc # "panic"
       /\ ShutdownReturns => (sCloseChan' /\ DOMAIN connections' = {})]_vars

====
